---- MODULE Spec2Model ----
(***************************************************************************)
(* PublishingOrchestrator.publishBook and the services it drives           *)
(* (ISBNManager.assignISBN, FormatConverter, CoverDesigner,                *)
(* MetadataOptimizer, QualityValidator, the platform publishers).          *)
(*                                                                         *)
(* One step of the model is one resumption of an async function: the code  *)
(* that runs between two awaits.  A call of publishBook is identified by a *)
(* call id; its project_id is part of its argument.                        *)
(***************************************************************************)
EXTENDS Integers, Sequences, FiniteSets, TLC

\* ------------------------------------------------------------------ bounds
MaxFormats == 2      \* longest params.formats
MaxChannels == 2     \* longest params.distribution_channels
MaxIsbns == 2        \* rows of prose.isbns

\* --------------------------------------------------------------- constants
Calls == {1, 2}
NULL == "NULL"
Absent == [kind |-> "undefined"]

PublishingFormat == {"ebook", "print", "audiobook"}

DistributionChannel ==
    {"amazon_kdp", "ingram_spark", "draft2digital", "findaway_voices",
     "kobo", "apple_books", "google_play_books", "barnes_noble"}

\* The keys of this.publishers.
Publishers == {"amazon_kdp", "ingram_spark", "draft2digital", "findaway_voices"}

\* Channels drawn for params.distribution_channels: the two adapters with a
\* requirements check, one adapter without, one channel with no publisher.
RequestedChannels == {"amazon_kdp", "ingram_spark", "draft2digital", "kobo"}

\* Variant: copyright_registration and lccn_application change places.
PhaseOrderSwapped ==
    <<"isbn_acquisition", "lccn_application", "copyright_registration",
      "format_conversion", "cover_generation", "metadata_optimization",
      "quality_validation", "platform_submission">>

PhaseOrder ==
    <<"isbn_acquisition", "copyright_registration", "lccn_application",
      "format_conversion", "cover_generation", "metadata_optimization",
      "quality_validation", "platform_submission">>

LastPhase == Len(PhaseOrder)

\* Variant: format_conversion weighs less than the phase before it.
getPhasePercentageUnordered(phase) ==
    CASE phase = "isbn_acquisition" -> 10
      [] phase = "copyright_registration" -> 20
      [] phase = "lccn_application" -> 30
      [] phase = "format_conversion" -> 25
      [] phase = "cover_generation" -> 65
      [] phase = "metadata_optimization" -> 75
      [] phase = "quality_validation" -> 85
      [] phase = "platform_submission" -> 100
      [] OTHER -> 0

getPhasePercentage(phase) ==
    CASE phase = "isbn_acquisition" -> 10
      [] phase = "copyright_registration" -> 20
      [] phase = "lccn_application" -> 30
      [] phase = "format_conversion" -> 50
      [] phase = "cover_generation" -> 65
      [] phase = "metadata_optimization" -> 75
      [] phase = "quality_validation" -> 85
      [] phase = "platform_submission" -> 100
      [] OTHER -> 0

\* Sequences without repetition over S, of length at most n.
SeqsUpTo(S, n) ==
    UNION {{s \in [1..k -> S] : \A i, j \in 1..k : i # j => s[i] # s[j]} :
           k \in 0..n}

Range(s) == {s[i] : i \in 1..Len(s)}

\* ---------------------------------------------------------------- artifacts
\* File sizes in MB.
EpubLimitMB == 650
IngramPdfLimitMB == 500
KdpPdfLimitMB == 650
MinPages == 24

\* params.chapters, by what the converters make of it: the sizes of the EPUB
\* and of the PDF built from the chapters, and the PDF's page count.
Chapters(epubMB, pdfMB, pages) ==
    [epub_size |-> epubMB, pdf_size |-> pdfMB, pages |-> pages]

Manuscripts == {Chapters(1, 1, 10), Chapters(700, 600, 30)}

\* What convertToEPUB returns when called without params.cover.
EPUBFile(size, cover) ==
    [kind |-> "epub", size |-> size, format |-> "epub3", toc_depth |-> 1,
     has_cover |-> cover # Absent]

MOBIFile(size) == [kind |-> "mobi", size |-> size, format |-> "mobi"]

PDFFile(size, pages, include_bleed) ==
    [kind |-> "pdf", size |-> size, page_count |-> pages,
     bleed |-> include_bleed, color_profile |-> "RGB"]

\* CoverDesigner.generateCover returns a CoverGenerationResult, which has no
\* dimensions, format, dpi or color_mode; QualityValidator.validateCover is
\* declared on a CoverDesign, which has them.  publishBook holds the value in
\* `let coverDesign: any`, so both shapes are drawn here.
CoverGenerationResult == [kind |-> "CoverGenerationResult"]

CoverDesign(w, h, fmt) ==
    [kind |-> "CoverDesign", dimensions |-> [width |-> w, height |-> h],
     format |-> fmt, dpi |-> 300, color_mode |-> "RGB"]

CoverResults ==
    {CoverGenerationResult,
     CoverDesign(3000, 4500, "jpg"),
     CoverDesign(1600, 2560, "jpg")}

\* What the orchestrator passes as params.metadata and what optimizeMetadata
\* returns: presence of title and author, description length, counts.
BookMetadata(title, author, descLen, nCat, nKey) ==
    [title |-> title, author |-> author, description |-> descLen,
     bisac_categories |-> nCat, keywords |-> nKey]

SampleMetadata == BookMetadata(TRUE, TRUE, 200, 2, 7)

\* ---------------------------------------------------------- QualityValidator
When(cond, item) == IF cond THEN <<item>> ELSE <<>>

Err(code, severity) == [code |-> code, severity |-> severity]
Warn(code, impact) == [code |-> code, impact |-> impact]

CountSev(errors, sev) == Cardinality({i \in 1..Len(errors) : errors[i].severity = sev})
CountImp(warnings, imp) == Cardinality({i \in 1..Len(warnings) : warnings[i].impact = imp})

Max(a, b) == IF a > b THEN a ELSE b

\* Variant: the score is not floored.
calculateQualityScoreNoFloor(errors, warnings) ==
    100 - 20 * CountSev(errors, "critical") - 10 * CountSev(errors, "error")
        - 5 * CountImp(warnings, "high") - 3 * CountImp(warnings, "medium")
        - 1 * CountImp(warnings, "low")

calculateQualityScore(errors, warnings) ==
    Max(0, 100 - 20 * CountSev(errors, "critical") - 10 * CountSev(errors, "error")
             - 5 * CountImp(warnings, "high") - 3 * CountImp(warnings, "medium")
             - 1 * CountImp(warnings, "low"))

\* Variant: a verdict passes only without any entry in errors.
ValidationResultNoErrors(format, errors, warnings) ==
    [valid |-> errors = <<>>,
     format |-> format, errors |-> errors, warnings |-> warnings,
     quality_score |-> calculateQualityScore(errors, warnings)]

ValidationResult(format, errors, warnings) ==
    [valid |-> CountSev(errors, "critical") = 0,
     format |-> format, errors |-> errors, warnings |-> warnings,
     quality_score |-> calculateQualityScore(errors, warnings)]

validateMetadata(metadata) ==
    [errors |->
        When(~metadata.title, Err("MISSING_TITLE", "critical"))
        \o When(~metadata.author, Err("MISSING_AUTHOR", "critical")),
     warnings |->
        When(metadata.description < 150, Warn("SHORT_DESCRIPTION", "high"))
        \o When(metadata.description > 4000, Warn("LONG_DESCRIPTION", "medium"))
        \o When(metadata.bisac_categories = 0, Warn("NO_CATEGORIES", "high"))
        \o When(metadata.keywords < 7, Warn("FEW_KEYWORDS", "medium"))]

\* Variant: the size rule of validateEPUB records a plain error.
validateEPUBSizeNotCritical(epub, metadata) ==
    LET md == validateMetadata(metadata)
    IN  ValidationResult("EPUB",
            When(epub.size > EpubLimitMB, Err("EPUB_TOO_LARGE", "error"))
            \o When(~epub.has_cover, Err("MISSING_COVER", "critical"))
            \o md.errors,
            When(epub.format = "epub2", Warn("EPUB_OLD_VERSION", "medium"))
            \o When(epub.toc_depth = 0, Warn("NO_TOC", "high"))
            \o md.warnings)

\* runEpubCheck returns no diagnostics on either path.
validateEPUB(epub, metadata) ==
    LET md == validateMetadata(metadata)
    IN  ValidationResult("EPUB",
            When(epub.size > EpubLimitMB, Err("EPUB_TOO_LARGE", "critical"))
            \o When(~epub.has_cover, Err("MISSING_COVER", "critical"))
            \o md.errors,
            When(epub.format = "epub2", Warn("EPUB_OLD_VERSION", "medium"))
            \o When(epub.toc_depth = 0, Warn("NO_TOC", "high"))
            \o md.warnings)

getPDFRequirements(channel) ==
    IF channel = "ingram_spark"
    THEN [maxFileSize |-> IngramPdfLimitMB, minPages |-> MinPages, colorProfile |-> "CMYK"]
    ELSE [maxFileSize |-> KdpPdfLimitMB, minPages |-> MinPages, colorProfile |-> "RGB"]

validatePDF(pdf, channel) ==
    LET requirements == getPDFRequirements(channel)
    IN  ValidationResult("PDF",
            When(pdf.size > requirements.maxFileSize, Err("PDF_TOO_LARGE", "critical"))
            \o When(pdf.page_count < requirements.minPages, Err("TOO_FEW_PAGES", "error")),
            When(channel = "ingram_spark" /\ pdf.color_profile # "CMYK",
                 Warn("WRONG_COLOR_PROFILE", "medium"))
            \o When(channel = "ingram_spark" /\ ~pdf.bleed, Warn("NO_BLEED", "high")))

\* Variant: a channel without an entry gets the draft2digital entry.
getCoverRequirementsOtherDefault(channel) ==
    CASE channel = "ingram_spark" ->
            [minWidth |-> 2550, minHeight |-> 3300, allowedFormats |-> {"jpg", "png", "tiff"}]
      [] channel = "amazon_kdp" ->
            [minWidth |-> 2560, minHeight |-> 1600, allowedFormats |-> {"jpg", "tiff"}]
      [] OTHER ->
            [minWidth |-> 1600, minHeight |-> 2400, allowedFormats |-> {"jpg", "png"}]

getCoverRequirements(channel) ==
    CASE channel = "ingram_spark" ->
            [minWidth |-> 2550, minHeight |-> 3300, allowedFormats |-> {"jpg", "png", "tiff"}]
      [] channel = "draft2digital" ->
            [minWidth |-> 1600, minHeight |-> 2400, allowedFormats |-> {"jpg", "png"}]
      [] OTHER ->
            [minWidth |-> 2560, minHeight |-> 1600, allowedFormats |-> {"jpg", "tiff"}]

\* validateCover reads cover.dimensions.width first: a value without
\* `dimensions` makes it throw a TypeError.
validateCoverThrows(cover) == "dimensions" \notin DOMAIN cover

validateCover(cover, channel) ==
    LET requirements == getCoverRequirements(channel)
        w == cover.dimensions.width
        h == cover.dimensions.height
    IN  ValidationResult("Cover Image",
            When(w < requirements.minWidth \/ h < requirements.minHeight,
                 Err("COVER_TOO_SMALL", "critical"))
            \o When(channel = "ingram_spark" /\ cover.dpi < 300, Err("LOW_DPI", "critical"))
            \o When(cover.format \notin requirements.allowedFormats,
                    Err("INVALID_FORMAT", "error")),
            When(10 * w < 6 * h \/ 10 * w > 7 * h, Warn("UNUSUAL_ASPECT_RATIO", "low"))
            \o When(channel = "ingram_spark" /\ cover.color_mode # "CMYK",
                    Warn("WRONG_COLOR_MODE", "medium")))

\* -------------------------------------------------------------------- state
VARIABLES
    params,               \* the argument of each publishBook call
    pc,                   \* where each call is suspended
    phaseIdx,             \* which runPhase call of publishBook the call is at
    idx,                  \* loop index of the running handler (formats, channels)
    rows,                 \* result.rows of the SELECT in assignISBN
    isbns,                \* `isbns` of the isbn_acquisition handler
    phases,               \* pipeline.phases
    current_phase,        \* pipeline.current_phase.name
    progress_percentage,  \* pipeline.progress_percentage
    events,               \* events emitted with each project_id, in order
    formatOutputs,        \* `formatOutputs` of publishBook
    coverDesign,          \* `coverDesign` of publishBook
    optimizedMetadata,    \* `optimizedMetadata` of publishBook
    validations,          \* `validations` of the quality_validation handler
    submissions,          \* `submissions` of publishBook
    attempts,             \* channels whose submitBook was invoked, in order
    error,                \* the exception being propagated
    outcome,              \* how the promise of publishBook settled
    db_isbns,             \* table prose.isbns
    db_projects,          \* table prose.publishing_projects
    files,                \* temp_<projectId>.epub and .mobi in storage.outputDir
    mobiBuffer            \* `mobiBuffer` of convertToMOBI

vars ==
    <<params, pc, phaseIdx, idx, rows, isbns, phases, current_phase,
      progress_percentage, events, formatOutputs, coverDesign,
      optimizedMetadata, validations, submissions, attempts, error, outcome,
      db_isbns, db_projects, files, mobiBuffer>>

pipelineVars == <<phases, current_phase, progress_percentage, events>>
handlerVars ==
    <<idx, rows, isbns, formatOutputs, coverDesign, optimizedMetadata,
      validations, submissions, attempts>>
dbVars == <<db_isbns, db_projects>>
converterVars == <<files, mobiBuffer>>

\* The temporary files of convertToMOBI, one pair for each project_id.
TempNames == Calls \X {"epub", "mobi"}

IsbnIds == 1..MaxIsbns

\* A row bought by purchaseISBN (format_type 'ebook') or inserted without a
\* format_type, and a row some earlier project holds.
AvailableRow(format_type) ==
    [status |-> "available", project_id |-> NULL, format_type |-> format_type]
TakenRow == [status |-> "assigned", project_id |-> "other", format_type |-> "ebook"]

NoOutputs == [epub |-> Absent, mobi |-> Absent, pdf |-> Absent]
NoValidations == [epub |-> Absent, pdf |-> Absent, cover |-> Absent]
Pending == [state |-> "pending"]

ParamsSet ==
    [project_id : Calls,
     formats : SeqsUpTo(PublishingFormat, MaxFormats),
     distribution_channels : SeqsUpTo(RequestedChannels, MaxChannels),
     chapters : Manuscripts,
     metadata : {SampleMetadata}]

IdleParams ==
    [project_id |-> 2, formats |-> <<>>, distribution_channels |-> <<>>,
     chapters |-> Chapters(1, 1, 10), metadata |-> SampleMetadata]

\* The state of the calls before publishBook is invoked.
InitCalls ==
    /\ pc = [c \in Calls |-> "idle"]
    /\ phaseIdx = [c \in Calls |-> 0]
    /\ idx = [c \in Calls |-> 0]
    /\ rows = [c \in Calls |-> {}]
    /\ isbns = [c \in Calls |-> <<>>]
    /\ phases = [c \in Calls |-> <<>>]
    /\ current_phase = [c \in Calls |-> "Initializing"]
    /\ progress_percentage = [c \in Calls |-> 0]
    /\ events = [c \in Calls |-> <<>>]
    /\ formatOutputs = [c \in Calls |-> NoOutputs]
    /\ coverDesign = [c \in Calls |-> Absent]
    /\ optimizedMetadata = [c \in Calls |-> Absent]
    /\ validations = [c \in Calls |-> NoValidations]
    /\ submissions = [c \in Calls |-> <<>>]
    /\ attempts = [c \in Calls |-> <<>>]
    /\ error = [c \in Calls |-> NULL]
    /\ outcome = [c \in Calls |-> Pending]
    /\ db_projects = {}
    /\ files = [name \in TempNames |-> Absent]
    /\ mobiBuffer = [c \in Calls |-> Absent]

Init ==
    /\ InitCalls
    /\ params \in [Calls -> ParamsSet]
    /\ params[1].project_id = 1
    /\ params[2] = IdleParams
    /\ db_isbns \in [IsbnIds -> {AvailableRow("ebook"), AvailableRow(NULL), TakenRow}]

\* ------------------------------------------------------------- exceptions
\* A handler throws: control passes to the catch block of runPhase.
Throw(c, message) ==
    /\ error' = [error EXCEPT ![c] = message]
    /\ pc' = [pc EXCEPT ![c] = "handler_threw"]

Goto(c, where) ==
    /\ pc' = [pc EXCEPT ![c] = where]
    /\ UNCHANGED error

\* Variant: the emitter's stream is not told apart by project_id.
EmitToAll(c, event) == events' = [p \in Calls |-> Append(events[p], event)]

\* this.emit on the orchestrator's emitter: the event joins the events that
\* carry the call's project_id.
Emit(c, event) ==
    events' = [events EXCEPT ![params[c].project_id] = Append(@, event)]

ProgressEvent(c, phase, progress, message) ==
    [type |-> "progress", project_id |-> params[c].project_id, phase |-> phase,
     progress |-> progress, message |-> message]

ErrorEvent(c, phase, message) ==
    [type |-> "error", project_id |-> params[c].project_id, phase |-> phase, error |-> message]

\* ------------------------------------------------------------- publishBook
\* publishBook up to its first runPhase call: the pipeline object is created.
PublishBook(c) ==
    /\ pc[c] = "idle"
    /\ phases' = [phases EXCEPT ![c] = <<>>]
    /\ current_phase' = [current_phase EXCEPT ![c] = "Initializing"]
    /\ progress_percentage' = [progress_percentage EXCEPT ![c] = 0]
    /\ phaseIdx' = [phaseIdx EXCEPT ![c] = 1]
    /\ Goto(c, "call_runPhase")
    /\ UNCHANGED <<params, events, handlerVars, outcome, dbVars, converterVars>>

\* Index of the first channel at or after i that has a publisher; 0 if none
\* (the loop of platform_submission `continue`s over the others).
NextWithPublisher(channels, i) ==
    LET js == {j \in i..Len(channels) : channels[j] \in Publishers}
    IN  IF js = {} THEN 0 ELSE CHOOSE j \in js : \A k \in js : j <= k

AfterEPUBStep(c) ==
    IF "print" \in Range(params[c].formats) THEN "convert_pdf" ELSE "handler_returned"

\* Where the handler of `phase` first suspends (or that it returns at once).
HandlerEntry(c, phase) ==
    CASE phase = "isbn_acquisition" ->
            IF Len(params[c].formats) = 0 THEN "handler_returned" ELSE "assign_select"
      [] phase = "copyright_registration" -> "register_copyright"
      [] phase = "lccn_application" -> "apply_lccn"
      [] phase = "format_conversion" ->
            IF "ebook" \in Range(params[c].formats) THEN "convert_epub"
            ELSE AfterEPUBStep(c)
      [] phase = "cover_generation" -> "generate_cover"
      [] phase = "metadata_optimization" -> "optimize_metadata"
      [] phase = "quality_validation" ->
            IF formatOutputs[c].epub # Absent THEN "validate_epub"
            ELSE IF formatOutputs[c].pdf # Absent THEN "validate_pdf"
            ELSE IF coverDesign[c] # Absent THEN "validate_cover"
            ELSE "handler_returned"
      [] phase = "platform_submission" ->
            IF NextWithPublisher(params[c].distribution_channels, 1) = 0
            THEN "handler_returned" ELSE "submit_book"

EntryIdx(c, phase) ==
    IF phase = "platform_submission"
    THEN NextWithPublisher(params[c].distribution_channels, 1)
    ELSE 1

PhaseRecord(phase) ==
    [phase |-> phase, status |-> "in_progress", progress |-> 0, message |-> NULL]

\* runPhase up to `await handler()`, and the handler up to its first await.
RunPhase(c) ==
    /\ pc[c] = "call_runPhase"
    /\ LET phase == PhaseOrder[phaseIdx[c]]
       IN  /\ phases' = [phases EXCEPT ![c] = Append(@, PhaseRecord(phase))]
           /\ current_phase' = [current_phase EXCEPT ![c] = phase]
           /\ Emit(c, ProgressEvent(c, phase, getPhasePercentage(phase), "Starting"))
           /\ Goto(c, HandlerEntry(c, phase))
           /\ idx' = [idx EXCEPT ![c] = EntryIdx(c, phase)]
    /\ UNCHANGED <<params, phaseIdx, progress_percentage, rows, isbns,
                   formatOutputs, coverDesign, optimizedMetadata, validations,
                   submissions, attempts, outcome, dbVars, converterVars>>

\* Variant: the update goes to the first record of pipeline.phases.
SetFirst(seq, field, value) ==
    [seq EXCEPT ![1] = [@ EXCEPT ![field] = value]]

\* An assignment to a field of phaseResult, the record runPhase pushed last.
SetLast(seq, field, value) ==
    [seq EXCEPT ![Len(seq)] = [@ EXCEPT ![field] = value]]

\* runPhase after the handler resolved; then publishBook goes on to its next
\* statement: the next runPhase call, or building and saving the project.
RunPhaseComplete(c) ==
    /\ pc[c] = "handler_returned"
    /\ LET phase == PhaseOrder[phaseIdx[c]]
       IN  /\ phases' = [phases EXCEPT ![c] =
                 SetLast(SetLast(@, "status", "completed"), "progress", 100)]
           /\ progress_percentage' =
                 [progress_percentage EXCEPT ![c] = getPhasePercentage(phase)]
           /\ Emit(c, ProgressEvent(c, phase, getPhasePercentage(phase), "Completed"))
    /\ IF phaseIdx[c] < LastPhase
       THEN /\ phaseIdx' = [phaseIdx EXCEPT ![c] = @ + 1]
            /\ Goto(c, "call_runPhase")
       ELSE /\ UNCHANGED phaseIdx
            /\ Goto(c, "save_project")
    /\ UNCHANGED <<params, current_phase, handlerVars, outcome, dbVars, converterVars>>

\* Variant: the catch block gives the ISBNs of the project back to the pool.
RunPhaseCatchReleases(c) ==
    /\ pc[c] = "handler_threw"
    /\ phases' = [phases EXCEPT ![c] =
          SetLast(SetLast(@, "status", "failed"), "message", error[c])]
    /\ Emit(c, ErrorEvent(c, PhaseOrder[phaseIdx[c]], error[c]))
    /\ pc' = [pc EXCEPT ![c] = "publish_catch"]
    /\ db_isbns' = [i \in IsbnIds |->
          IF \E k \in 1..Len(isbns[c]) : isbns[c][k].isbn_13 = i
          THEN AvailableRow(NULL) ELSE db_isbns[i]]
    /\ UNCHANGED <<params, phaseIdx, current_phase, progress_percentage,
                   handlerVars, error, outcome, db_projects, converterVars>>

\* Variant: the catch block records the failure and does not throw again, so
\* runPhase returns and publishBook goes on.
RunPhaseCatchSwallows(c) ==
    /\ pc[c] = "handler_threw"
    /\ phases' = [phases EXCEPT ![c] =
          SetLast(SetLast(@, "status", "failed"), "message", error[c])]
    /\ Emit(c, ErrorEvent(c, PhaseOrder[phaseIdx[c]], error[c]))
    /\ IF phaseIdx[c] < LastPhase
       THEN /\ phaseIdx' = [phaseIdx EXCEPT ![c] = @ + 1]
            /\ pc' = [pc EXCEPT ![c] = "call_runPhase"]
       ELSE /\ UNCHANGED phaseIdx
            /\ pc' = [pc EXCEPT ![c] = "save_project"]
    /\ UNCHANGED <<params, current_phase, progress_percentage,
                   handlerVars, error, outcome, dbVars, converterVars>>

\* The catch block of runPhase: the record fails, the error event is emitted,
\* the error is thrown again.
RunPhaseCatch(c) ==
    /\ pc[c] = "handler_threw"
    /\ phases' = [phases EXCEPT ![c] =
          SetLast(SetLast(@, "status", "failed"), "message", error[c])]
    /\ Emit(c, ErrorEvent(c, PhaseOrder[phaseIdx[c]], error[c]))
    /\ pc' = [pc EXCEPT ![c] = "publish_catch"]
    /\ UNCHANGED <<params, phaseIdx, current_phase, progress_percentage,
                   handlerVars, error, outcome, dbVars, converterVars>>

\* config.costs with no environment override, in cents.
isbn_single == 12500
copyright_registration == 6500
lccn == 0
cover_generation == 40

\* Variant: one ISBN is charged for the book, however many formats it has.
calculateCostsOneIsbn(p) ==
    LET costs == [isbn_costs |-> isbn_single,
                  copyright_costs |-> copyright_registration,
                  lccn_costs |-> lccn,
                  cover_design_costs |-> cover_generation,
                  format_conversion_costs |-> 0,
                  platform_submission_costs |-> 0,
                  total |-> 0]
    IN  [costs EXCEPT !.total =
            costs.isbn_costs + costs.copyright_costs + costs.lccn_costs
            + costs.cover_design_costs + costs.format_conversion_costs
            + costs.platform_submission_costs + costs.total]

\* calculateCosts: the total is the sum of all the entries of the breakdown,
\* its own initial 0 included.
calculateCosts(p) ==
    LET costs == [isbn_costs |-> Len(p.formats) * isbn_single,
                  copyright_costs |-> copyright_registration,
                  lccn_costs |-> lccn,
                  cover_design_costs |-> cover_generation,
                  format_conversion_costs |-> 0,
                  platform_submission_costs |-> 0,
                  total |-> 0]
    IN  [costs EXCEPT !.total =
            costs.isbn_costs + costs.copyright_costs + costs.lccn_costs
            + costs.cover_design_costs + costs.format_conversion_costs
            + costs.platform_submission_costs + costs.total]

PublishingProject(c) ==
    [prose_project_id |-> params[c].project_id, formats |-> params[c].formats,
     distribution_channels |-> params[c].distribution_channels,
     status |-> "published", total_cost |-> calculateCosts(params[c]).total]

\* savePublishingProject settles: the INSERT succeeded or the query threw.
SavePublishingProject(c) ==
    /\ pc[c] = "save_project"
    /\ \/ /\ db_projects' = db_projects \cup {PublishingProject(c)}
          /\ outcome' = [outcome EXCEPT ![c] =
                [state |-> "resolved", project |-> PublishingProject(c)]]
          /\ Goto(c, "resolved")
       \/ /\ error' = [error EXCEPT ![c] = "insert failed"]
          /\ pc' = [pc EXCEPT ![c] = "publish_catch"]
          /\ UNCHANGED <<db_projects, outcome>>
    /\ UNCHANGED <<params, phaseIdx, pipelineVars, handlerVars, db_isbns,
                   converterVars>>

\* The catch block of publishBook.
PublishBookCatch(c) ==
    /\ pc[c] = "publish_catch"
    /\ outcome' = [outcome EXCEPT ![c] =
          [state |-> "rejected", phase |-> current_phase[c], message |-> error[c]]]
    /\ Goto(c, "rejected")
    /\ UNCHANGED <<params, phaseIdx, pipelineVars, handlerVars, dbVars, converterVars>>

\* ------------------------------------------------- phase 1: isbn_acquisition
FormatAt(c) == params[c].formats[idx[c]]

\* Variant: the SELECT does not look at the status of the rows.
SelectAnyStatus(table, format) ==
    LET eligible == {i \in DOMAIN table : table[i].format_type \in {format, NULL}}
        rank(i) == IF table[i].format_type = format THEN 0 ELSE 1
        before(i, j) == rank(i) < rank(j) \/ (rank(i) = rank(j) /\ i <= j)
    IN  {i \in eligible : \A j \in eligible : before(i, j)}

\* The SELECT of assignISBN: available rows whose format_type is the requested
\* one or NULL, matching format first, then oldest first; LIMIT 1.
SelectAvailable(table, format) ==
    LET eligible == {i \in DOMAIN table :
                        /\ table[i].status = "available"
                        /\ table[i].format_type \in {format, NULL}}
        rank(i) == IF table[i].format_type = format THEN 0 ELSE 1
        before(i, j) == rank(i) < rank(j) \/ (rank(i) = rank(j) /\ i <= j)
    IN  {i \in eligible : \A j \in eligible : before(i, j)}

\* Variant: an empty result is not an error, the handler returns without ISBN.
AssignSelectNoCheck(c) ==
    /\ pc[c] = "assign_select"
    /\ LET found == SelectAvailable(db_isbns, FormatAt(c))
       IN  IF found = {}
           THEN /\ Goto(c, "handler_returned")
                /\ UNCHANGED rows
           ELSE /\ rows' = [rows EXCEPT ![c] = found]
                /\ Goto(c, "assign_update")
    /\ UNCHANGED <<params, phaseIdx, idx, isbns, pipelineVars, formatOutputs,
                   coverDesign, optimizedMetadata, validations, submissions,
                   attempts, outcome, dbVars, converterVars>>

AssignSelect(c) ==
    /\ pc[c] = "assign_select"
    /\ LET found == SelectAvailable(db_isbns, FormatAt(c))
       IN  IF found = {}
           THEN /\ Throw(c, "No available ISBNs")
                /\ UNCHANGED rows
           ELSE /\ rows' = [rows EXCEPT ![c] = found]
                /\ Goto(c, "assign_update")
    /\ UNCHANGED <<params, phaseIdx, idx, isbns, pipelineVars, formatOutputs,
                   coverDesign, optimizedMetadata, validations, submissions,
                   attempts, outcome, dbVars, converterVars>>

\* The UPDATE of assignISBN, keyed by the id of the selected row alone.
AssignUpdate(c) ==
    /\ pc[c] = "assign_update"
    /\ LET isbn == CHOOSE i \in rows[c] : TRUE
       IN  db_isbns' = [db_isbns EXCEPT ![isbn] =
               [status |-> "assigned", project_id |-> params[c].project_id,
                format_type |-> FormatAt(c)]]
    /\ Goto(c, "assign_barcode")
    /\ UNCHANGED <<params, phaseIdx, pipelineVars, handlerVars, outcome, db_projects,
                   converterVars>>

\* generateBarcode settled (it never throws); assignISBN returns and the
\* handler pushes the ISBN and takes the next format.
AssignReturn(c) ==
    /\ pc[c] = "assign_barcode"
    /\ LET isbn == CHOOSE i \in rows[c] : TRUE
       IN  isbns' = [isbns EXCEPT ![c] =
               Append(@, [isbn_13 |-> isbn, format |-> FormatAt(c)])]
    /\ IF idx[c] < Len(params[c].formats)
       THEN /\ idx' = [idx EXCEPT ![c] = @ + 1]
            /\ Goto(c, "assign_select")
       ELSE /\ UNCHANGED idx
            /\ Goto(c, "handler_returned")
    /\ UNCHANGED <<params, phaseIdx, rows, pipelineVars, formatOutputs,
                   coverDesign, optimizedMetadata, validations, submissions,
                   attempts, outcome, dbVars, converterVars>>

\* ---------------------------------------------------------- phases 2 and 3
RegisterCopyright(c) ==
    /\ pc[c] = "register_copyright"
    /\ \/ Goto(c, "handler_returned")
       \/ Throw(c, "Copyright registration failed")
    /\ UNCHANGED <<params, phaseIdx, pipelineVars, handlerVars, outcome, dbVars, converterVars>>

ApplyForLCCN(c) ==
    /\ pc[c] = "apply_lccn"
    /\ \/ Goto(c, "handler_returned")
       \/ Throw(c, "LCCN application failed")
    /\ UNCHANGED <<params, phaseIdx, pipelineVars, handlerVars, outcome, dbVars, converterVars>>

\* ------------------------------------------------ phase 4: format_conversion
\* Variant: the handler passes a cover to convertToEPUB.
ConvertToEPUBWithCover(c) ==
    /\ pc[c] = "convert_epub"
    /\ \/ /\ formatOutputs' = [formatOutputs EXCEPT ![c].epub =
                                   EPUBFile(params[c].chapters.epub_size,
                                            CoverGenerationResult)]
          /\ Goto(c, "convert_mobi")
       \/ /\ Throw(c, "EPUB conversion failed")
          /\ UNCHANGED formatOutputs
    /\ UNCHANGED <<params, phaseIdx, pipelineVars, idx, rows, isbns, coverDesign,
                   optimizedMetadata, validations, submissions, attempts,
                   outcome, dbVars, converterVars>>

\* convertToEPUB settled; the handler calls it without params.cover.
ConvertToEPUB(c) ==
    /\ pc[c] = "convert_epub"
    /\ \/ /\ formatOutputs' = [formatOutputs EXCEPT ![c].epub =
                                   EPUBFile(params[c].chapters.epub_size, Absent)]
          /\ Goto(c, "convert_mobi")
       \/ /\ Throw(c, "EPUB conversion failed")
          /\ UNCHANGED formatOutputs
    /\ UNCHANGED <<params, phaseIdx, pipelineVars, idx, rows, isbns, coverDesign,
                   optimizedMetadata, validations, submissions, attempts,
                   outcome, dbVars, converterVars>>

\* convertToMOBI settled.  When it succeeded it has removed its temporary
\* files; when ebook-convert failed the temporary EPUB stays behind.
ConvertToMOBI(c) ==
    /\ pc[c] = "convert_mobi"
    /\ LET tempEpub == <<params[c].project_id, "epub">>
           tempMobi == <<params[c].project_id, "mobi">>
       IN  \/ /\ formatOutputs' =
                    [formatOutputs EXCEPT ![c].mobi = MOBIFile(formatOutputs[c].epub.size)]
              /\ files' = [files EXCEPT ![tempEpub] = Absent, ![tempMobi] = Absent]
              /\ Goto(c, AfterEPUBStep(c))
           \/ /\ Throw(c, "MOBI conversion failed")
              /\ files' = [files EXCEPT ![tempEpub] = formatOutputs[c].epub]
              /\ UNCHANGED formatOutputs
    /\ UNCHANGED <<params, phaseIdx, pipelineVars, idx, rows, isbns, coverDesign,
                   optimizedMetadata, validations, submissions, attempts,
                   outcome, dbVars, mobiBuffer>>

ConvertToPDF(c) ==
    /\ pc[c] = "convert_pdf"
    /\ \/ /\ formatOutputs' = [formatOutputs EXCEPT ![c].pdf =
                                   PDFFile(params[c].chapters.pdf_size,
                                           params[c].chapters.pages, TRUE)]
          /\ Goto(c, "handler_returned")
       \/ /\ Throw(c, "PDF conversion failed")
          /\ UNCHANGED formatOutputs
    /\ UNCHANGED <<params, phaseIdx, pipelineVars, idx, rows, isbns, coverDesign,
                   optimizedMetadata, validations, submissions, attempts,
                   outcome, dbVars, converterVars>>

\* ------------------------------------------------------------ phases 5 and 6
GenerateCover(c) ==
    /\ pc[c] = "generate_cover"
    /\ \/ \E cover \in CoverResults :
            /\ coverDesign' = [coverDesign EXCEPT ![c] = cover]
            /\ Goto(c, "handler_returned")
       \/ /\ Throw(c, "Cover generation failed")
          /\ UNCHANGED coverDesign
    /\ UNCHANGED <<params, phaseIdx, pipelineVars, idx, rows, isbns, formatOutputs,
                   optimizedMetadata, validations, submissions, attempts,
                   outcome, dbVars, converterVars>>

OptimizeMetadata(c) ==
    /\ pc[c] = "optimize_metadata"
    /\ \/ /\ optimizedMetadata' = [optimizedMetadata EXCEPT ![c] = params[c].metadata]
          /\ Goto(c, "handler_returned")
       \/ /\ Throw(c, "Metadata optimization failed")
          /\ UNCHANGED optimizedMetadata
    /\ UNCHANGED <<params, phaseIdx, pipelineVars, idx, rows, isbns, formatOutputs,
                   coverDesign, validations, submissions, attempts, outcome, dbVars, converterVars>>

\* ----------------------------------------------- phase 7: quality_validation
\* Object.values(validations).some(v => !v.valid)
hasCriticalErrors(vals) ==
    \E k \in DOMAIN vals : vals[k] # Absent /\ ~vals[k].valid

\* Variant: the verdicts are collected and never gate the pipeline.
FinishValidationLenient(c, vals) == Goto(c, "handler_returned")

\* The end of the handler: throw on a failing verdict, else return.
FinishValidation(c, vals) ==
    IF hasCriticalErrors(vals)
    THEN Throw(c, "Quality validation failed with critical errors")
    ELSE Goto(c, "handler_returned")

ValidateEPUB(c) ==
    /\ pc[c] = "validate_epub"
    /\ LET vals == [validations[c] EXCEPT
                       !.epub = validateEPUB(formatOutputs[c].epub, optimizedMetadata[c])]
       IN  /\ validations' = [validations EXCEPT ![c] = vals]
           /\ IF formatOutputs[c].pdf # Absent THEN Goto(c, "validate_pdf")
              ELSE IF coverDesign[c] # Absent THEN Goto(c, "validate_cover")
              ELSE FinishValidation(c, vals)
    /\ UNCHANGED <<params, phaseIdx, pipelineVars, idx, rows, isbns, formatOutputs,
                   coverDesign, optimizedMetadata, submissions, attempts,
                   outcome, dbVars, converterVars>>

ValidatePDF(c) ==
    /\ pc[c] = "validate_pdf"
    /\ LET vals == [validations[c] EXCEPT
                       !.pdf = validatePDF(formatOutputs[c].pdf, "ingram_spark")]
       IN  /\ validations' = [validations EXCEPT ![c] = vals]
           /\ IF coverDesign[c] # Absent THEN Goto(c, "validate_cover")
              ELSE FinishValidation(c, vals)
    /\ UNCHANGED <<params, phaseIdx, pipelineVars, idx, rows, isbns, formatOutputs,
                   coverDesign, optimizedMetadata, submissions, attempts,
                   outcome, dbVars, converterVars>>

ValidateCover(c) ==
    /\ pc[c] = "validate_cover"
    /\ IF validateCoverThrows(coverDesign[c])
       THEN /\ Throw(c, "TypeError")
            /\ UNCHANGED validations
       ELSE LET vals == [validations[c] EXCEPT
                            !.cover = validateCover(coverDesign[c], "amazon_kdp")]
            IN  /\ validations' = [validations EXCEPT ![c] = vals]
                /\ FinishValidation(c, vals)
    /\ UNCHANGED <<params, phaseIdx, pipelineVars, idx, rows, isbns, formatOutputs,
                   coverDesign, optimizedMetadata, submissions, attempts,
                   outcome, dbVars, converterVars>>

\* ---------------------------------------------- phase 8: platform_submission
\* formatOutputs.epub?.file || formatOutputs.pdf?.file
Manuscript(outputs) == IF outputs.epub # Absent THEN outputs.epub ELSE outputs.pdf

SubmissionRequest(c) ==
    [isbn |-> "", manuscript |-> Manuscript(formatOutputs[c]),
     title |-> optimizedMetadata[c].title, author |-> optimizedMetadata[c].author]

SubmissionResult(platform, status) == [platform |-> platform, status |-> status]
Thrown(message) == [threw |-> message]

\* What publisher.submitBook(request) can settle to: a SubmissionResult, or a
\* thrown error.  Both adapters with a validateFiles check read
\* request.manuscript.length, a TypeError when there is no manuscript.
SubmitBook(channel, request) ==
    CASE channel = "amazon_kdp" ->
            IF request.manuscript = Absent
            THEN {Thrown("KDP submission failed")}
            ELSE IF request.manuscript.size > EpubLimitMB \/ ~request.title \/ ~request.author
            THEN {SubmissionResult(channel, "error")}
            ELSE {SubmissionResult(channel, "ready_for_upload"),
                  Thrown("KDP submission failed")}
      [] channel = "ingram_spark" ->
            IF request.manuscript = Absent
            THEN {Thrown("IngramSpark submission failed")}
            ELSE IF request.isbn = "" \/ request.manuscript.size > IngramPdfLimitMB
            THEN {SubmissionResult(channel, "error")}
            ELSE {SubmissionResult(channel, "ready_for_upload"),
                  SubmissionResult(channel, "submitted"),
                  Thrown("IngramSpark submission failed")}
      [] OTHER -> {SubmissionResult(channel, "ready_for_upload")}

\* One iteration of the loop over params.distribution_channels, from the
\* settling of submitBook to the next submitBook call (or the return).
SubmitChannel(c) ==
    /\ pc[c] = "submit_book"
    /\ LET channels == params[c].distribution_channels
           channel == channels[idx[c]]
           next == NextWithPublisher(channels, idx[c] + 1)
       IN  /\ attempts' = [attempts EXCEPT ![c] = Append(@, channel)]
           /\ \E settled \in SubmitBook(channel, SubmissionRequest(c)) :
                IF "threw" \in DOMAIN settled
                THEN /\ Throw(c, settled.threw)
                     /\ UNCHANGED <<submissions, idx>>
                ELSE /\ submissions' = [submissions EXCEPT ![c] = Append(@, settled)]
                     /\ IF next = 0
                        THEN /\ Goto(c, "handler_returned")
                             /\ UNCHANGED idx
                        ELSE /\ Goto(c, "submit_book")
                             /\ idx' = [idx EXCEPT ![c] = next]
    /\ UNCHANGED <<params, phaseIdx, pipelineVars, rows, isbns, formatOutputs,
                   coverDesign, optimizedMetadata, validations, outcome, dbVars, converterVars>>

\* -------------------------------------------------------------- the system
Step(c) ==
    \/ PublishBook(c)
    \/ RunPhase(c)
    \/ RunPhaseComplete(c)
    \/ RunPhaseCatch(c)
    \/ SavePublishingProject(c)
    \/ PublishBookCatch(c)
    \/ AssignSelect(c)
    \/ AssignUpdate(c)
    \/ AssignReturn(c)
    \/ RegisterCopyright(c)
    \/ ApplyForLCCN(c)
    \/ ConvertToEPUB(c)
    \/ ConvertToMOBI(c)
    \/ ConvertToPDF(c)
    \/ GenerateCover(c)
    \/ OptimizeMetadata(c)
    \/ ValidateEPUB(c)
    \/ ValidatePDF(c)
    \/ ValidateCover(c)
    \/ SubmitChannel(c)

\* One publishBook call.
Next == Step(1)

Spec == Init /\ [][Next]_vars

\* Two publishBook calls on one orchestrator (the router's), sharing the
\* database.
ConcurrentParams ==
    {[project_id |-> 1,
      formats |-> <<"ebook">>, distribution_channels |-> <<"draft2digital">>,
      chapters |-> Chapters(1, 1, 10), metadata |-> SampleMetadata],
     [project_id |-> 1,
      formats |-> <<"print">>, distribution_channels |-> <<"amazon_kdp", "kobo">>,
      chapters |-> Chapters(1, 1, 10), metadata |-> SampleMetadata]}

InitConcurrent ==
    /\ InitCalls
    /\ \E chosen \in [Calls -> ConcurrentParams] :
          params = [c \in Calls |-> [chosen[c] EXCEPT !.project_id = c]]
    /\ db_isbns \in [IsbnIds -> {AvailableRow(NULL), TakenRow}]

NextConcurrent == \E c \in Calls : Step(c)

SpecConcurrent == InitConcurrent /\ [][NextConcurrent]_vars

\* Two publishBook calls for the same project, one after the other: the
\* second is made once the first has settled.
RepeatParams ==
    {[project_id |-> 1,
      formats |-> <<"ebook", "print">>, distribution_channels |-> <<"draft2digital">>,
      chapters |-> Chapters(1, 1, 10), metadata |-> SampleMetadata],
     [project_id |-> 1,
      formats |-> <<"print">>, distribution_channels |-> <<"amazon_kdp", "kobo">>,
      chapters |-> Chapters(1, 1, 10), metadata |-> SampleMetadata]}

InitRepeat ==
    /\ InitCalls
    /\ params \in [Calls -> RepeatParams]
    /\ db_isbns \in [IsbnIds -> {AvailableRow(NULL), TakenRow}]

Settled(c) == pc[c] \in {"resolved", "rejected"}

StepLater(c) == Settled(1) /\ Step(c)

NextRepeat ==
    \/ Step(1)
    \/ StepLater(2)

SpecRepeat == InitRepeat /\ [][NextRepeat]_vars

\* ------------------------------------------- the services called on their own
\* A direct call of a service method: params[c] holds the method and its
\* arguments, outcome[c] how the returned promise settled, pc[c] whether the
\* call is still to be made.  Nothing of a publishing pipeline moves.
MaxDiagnostics == 3   \* most diagnostics of one kind given to calculateQualityScore

NoCall == [method |-> "none"]

Resolved(value) == [state |-> "resolved", value |-> value]
Rejected(message) == [state |-> "rejected", message |-> message]

CallSettles(c, settled) ==
    /\ pc[c] = "idle"
    /\ pc' = [pc EXCEPT ![c] = settled.state]
    /\ outcome' = [outcome EXCEPT ![c] = settled]
    /\ UNCHANGED <<params, phaseIdx, pipelineVars, handlerVars, error, dbVars, converterVars>>

Repeat(item, n) == [i \in 1..n |-> item]

\* Arguments on both sides of every threshold the validators compare with.
EPUBInputs ==
    [kind : {"epub"}, size : {1, EpubLimitMB, EpubLimitMB + 1},
     format : {"epub2", "epub3"}, toc_depth : {0, 1}, has_cover : BOOLEAN]

MetadataInputs ==
    {BookMetadata(t, a, d, nCat, nKey) :
        t \in BOOLEAN, a \in BOOLEAN, d \in {100, 200, 4001},
        nCat \in {0, 2}, nKey \in {3, 7}}

PDFInputs ==
    [kind : {"pdf"}, size : {1, IngramPdfLimitMB + 1, KdpPdfLimitMB + 1},
     page_count : {10, MinPages}, bleed : BOOLEAN, color_profile : {"RGB", "CMYK"}]

CoverInputs ==
    {[CoverDesign(d[1], d[2], f) EXCEPT !.dpi = dpi, !.color_mode = m] :
        d \in {<<3000, 4500>>, <<1600, 2560>>, <<2560, 1600>>, <<2000, 3000>>},
        f \in {"jpg", "png", "gif"}, dpi \in {72, 300}, m \in {"RGB", "CMYK"}}

DiagnosticLists ==
    {[errors |-> Repeat(Err("E", "critical"), nc) \o Repeat(Err("E", "error"), ne),
      warnings |-> Repeat(Warn("W", "high"), nh) \o Repeat(Warn("W", "medium"), nm)
                   \o Repeat(Warn("W", "low"), nl)] :
        nc \in 0..MaxDiagnostics, ne \in 0..MaxDiagnostics, nh \in 0..MaxDiagnostics,
        nm \in 0..MaxDiagnostics, nl \in 0..MaxDiagnostics}

ValidatorCalls ==
    {[method |-> "validateEPUB", epub |-> e, metadata |-> m] :
        e \in EPUBInputs, m \in MetadataInputs}
    \cup {[method |-> "validatePDF", pdf |-> f, channel |-> ch] :
        f \in PDFInputs, ch \in DistributionChannel}
    \cup {[method |-> "validateCover", cover |-> cv, channel |-> ch] :
        cv \in CoverInputs, ch \in DistributionChannel}
    \cup {[method |-> "calculateQualityScore", errors |-> d.errors,
           warnings |-> d.warnings] : d \in DiagnosticLists}

InitValidator ==
    /\ InitCalls
    /\ params \in [Calls -> ValidatorCalls \cup {NoCall}]
    /\ params[1] # NoCall
    /\ params[2] = NoCall
    /\ db_isbns = [i \in IsbnIds |-> TakenRow]

CallValidateEPUB(c) ==
    /\ params[c].method = "validateEPUB"
    /\ CallSettles(c, Resolved(validateEPUB(params[c].epub, params[c].metadata)))

CallValidatePDF(c) ==
    /\ params[c].method = "validatePDF"
    /\ CallSettles(c, Resolved(validatePDF(params[c].pdf, params[c].channel)))

CallValidateCover(c) ==
    /\ params[c].method = "validateCover"
    /\ CallSettles(c, Resolved(validateCover(params[c].cover, params[c].channel)))

CallCalculateQualityScore(c) ==
    /\ params[c].method = "calculateQualityScore"
    /\ CallSettles(c, Resolved(calculateQualityScore(params[c].errors, params[c].warnings)))

NextValidator ==
    \/ CallValidateEPUB(1)
    \/ CallValidatePDF(1)
    \/ CallValidateCover(1)
    \/ CallCalculateQualityScore(1)

SpecValidator == InitValidator /\ [][NextValidator]_vars

\* ------------------------------------------ FormatConverter called on its own
MaxChapters == 2   \* longest params.chapters
MaxUuids == 4      \* values uuidv4 can return

\* A Chapter of ProseCreator; chapter_number runs one past the longest list
\* so that a list can have a gap.
Texts == {[title |-> "One", content |-> "alpha"], [title |-> "Two", content |-> "beta"]}

ChapterInputs ==
    {[chapter_number |-> k, title |-> t.title, content |-> t.content] :
        k \in 1..(MaxChapters + 1), t \in Texts}

ChapterLists == UNION {[1..n -> ChapterInputs] : n \in 0..MaxChapters}

SuppliedCover == [front_cover |-> "jpeg"] @@ CoverDesign(3000, 4500, "jpg")

\* A path in the archive: folder, file name, and the number that
\* `chapter${i + 1}.xhtml` carries (0 for the fixed names).
Name(dir, base, n) == <<dir, base, n>>

\* An href or an id of content.opf, toc.ncx and nav.xhtml, relative to OEBPS.
Ref(base, n) == <<base, n>>

Item(id, href) == [id |-> id, href |-> href]

generateContentOPF(metadata, chapters, uuid) ==
    [identifier |-> uuid,
     manifest |->
        <<Item(Ref("nav", 0), Ref("nav.xhtml", 0)),
          Item(Ref("ncx", 0), Ref("toc.ncx", 0)),
          Item(Ref("cover-image", 0), Ref("cover.jpg", 0)),
          Item(Ref("cover", 0), Ref("cover.xhtml", 0)),
          Item(Ref("css", 0), Ref("styles.css", 0))>>
        \o [i \in 1..Len(chapters) |-> Item(Ref("chapter", i), Ref("chapter.xhtml", i))],
     spine |-> <<Ref("cover", 0)>> \o [i \in 1..Len(chapters) |-> Ref("chapter", i)]]

generateTocNCX(metadata, chapters, uuid) ==
    [uid |-> uuid,
     navPoints |->
        [i \in 1..Len(chapters) |->
            [id |-> Ref("chapter", i), playOrder |-> i, title |-> chapters[i].title,
             src |-> Ref("chapter.xhtml", i)]]]

generateNavXHTML(chapters) ==
    [i \in 1..Len(chapters) |->
        [href |-> Ref("chapter.xhtml", i), title |-> chapters[i].title]]

generateChapterXHTML(chapter) == [title |-> chapter.title, content |-> chapter.content]

\* zip.file(name, data, options): the entry is appended; options.compression
\* is NULL when the call gives none.
ZipFile(zip, name, data, compression) ==
    Append(zip, [name |-> name, content |-> data, compression |-> compression])

\* Variant: the compression given to generateAsync replaces every entry's own.
generateAsyncOverriding(zip, compression) ==
    [i \in 1..Len(zip) |-> [zip[i] EXCEPT !.compression = compression]]

\* zip.generateAsync({compression}): an entry without a compression of its
\* own takes the one given here.
generateAsync(zip, compression) ==
    [i \in 1..Len(zip) |->
        IF zip[i].compression = NULL
        THEN [zip[i] EXCEPT !.compression = compression]
        ELSE zip[i]]

RECURSIVE AddChapters(_, _, _)
AddChapters(zip, chapters, i) ==
    IF i > Len(chapters) THEN zip
    ELSE AddChapters(ZipFile(zip, Name("OEBPS", "chapter.xhtml", i),
                             generateChapterXHTML(chapters[i]), NULL),
                     chapters, i + 1)

\* convertToEPUB up to its return value; `uuids` are the values the two
\* uuidv4() calls of the build return (content.opf, then toc.ncx).  The size
\* is the length of the buffer, counted here in entries.
convertToEPUB(chapters, metadata, cover, uuids) ==
    LET z1 == ZipFile(<<>>, Name("", "mimetype", 0), "application/epub+zip", "STORE")
        z2 == ZipFile(z1, Name("META-INF", "container.xml", 0),
                      [rootfile |-> Name("OEBPS", "content.opf", 0)], NULL)
        z4 == ZipFile(z2, Name("OEBPS", "content.opf", 0),
                      generateContentOPF(metadata, chapters, uuids[1]), NULL)
        z5 == ZipFile(z4, Name("OEBPS", "toc.ncx", 0),
                      generateTocNCX(metadata, chapters, uuids[2]), NULL)
        z6 == ZipFile(z5, Name("OEBPS", "nav.xhtml", 0), generateNavXHTML(chapters), NULL)
        z7 == ZipFile(z6, Name("OEBPS", "styles.css", 0), "stylesheet", NULL)
        z8 == IF cover # Absent
              THEN ZipFile(ZipFile(z7, Name("OEBPS", "cover.jpg", 0), cover.front_cover, NULL),
                           Name("OEBPS", "cover.xhtml", 0), "cover page", NULL)
              ELSE z7
        z9 == AddChapters(z8, chapters, 1)
        epubBuffer == generateAsync(z9, "DEFLATE")
    IN  [file |-> epubBuffer] @@ EPUBFile(Len(epubBuffer), cover)

\* convertToPDF up to its return value: the pages added to the document.
\* countPDFPages: the page objects found in the rendered document, 1 when
\* none is found.
countPDFPages(pdfBuffer) == IF Len(pdfBuffer) = 0 THEN 1 ELSE Len(pdfBuffer)

convertToPDF(chapters, metadata, include_bleed) ==
    LET pages ==
            <<[page |-> "title"], [page |-> "copyright"]>>
            \o (IF Len(chapters) > 1
                THEN <<[page |-> "contents",
                        lines |-> [i \in 1..Len(chapters) |->
                                      [number |-> i, title |-> chapters[i].title]]]>>
                ELSE <<>>)
            \o [i \in 1..Len(chapters) |->
                   [page |-> "chapter", title |-> chapters[i].title,
                    content |-> chapters[i].content]]
    IN  [file |-> pages] @@ PDFFile(Len(pages), countPDFPages(pages), include_bleed)

ConverterCalls ==
    {[method |-> "convertToEPUB", chapters |-> chs, metadata |-> SampleMetadata,
      cover |-> cv] : chs \in ChapterLists, cv \in {Absent, SuppliedCover}}
    \cup {[method |-> "convertToPDF", chapters |-> chs, metadata |-> SampleMetadata,
           include_bleed |-> b] : chs \in ChapterLists, b \in BOOLEAN}

\* One build, or the same build requested twice.
InitConverter ==
    /\ InitCalls
    /\ \E first \in ConverterCalls, second \in BOOLEAN :
          params = [c \in Calls |-> IF c = 1 \/ second THEN first ELSE NoCall]
    /\ db_isbns = [i \in IsbnIds |-> TakenRow]

Built(c) == pc[c] = "resolved" /\ params[c].method = "convertToEPUB"

\* The content of an entry of the archive a build returned.
Document(c, base) ==
    LET file == outcome[c].value.file
    IN  file[CHOOSE i \in 1..Len(file) : file[i].name = Name("OEBPS", base, 0)].content

\* uuidv4 returns a value it has not returned before.
UsedUuids ==
    UNION {{Document(c, "content.opf").identifier, Document(c, "toc.ncx").uid} :
           c \in {c \in Calls : Built(c)}}

CallConvertToEPUB(c) ==
    /\ params[c].method = "convertToEPUB"
    /\ \/ \E u1, u2 \in (1..MaxUuids) \ UsedUuids :
             /\ u1 # u2
             /\ CallSettles(c, Resolved(convertToEPUB(params[c].chapters, params[c].metadata,
                                                      params[c].cover, <<u1, u2>>)))
       \/ CallSettles(c, Rejected("EPUB conversion failed"))

CallConvertToPDF(c) ==
    /\ params[c].method = "convertToPDF"
    /\ \/ CallSettles(c, Resolved(convertToPDF(params[c].chapters, params[c].metadata,
                                               params[c].include_bleed)))
       \/ CallSettles(c, Rejected("PDF conversion failed"))

NextConverter ==
    \E c \in Calls :
        \/ CallConvertToEPUB(c)
        \/ CallConvertToPDF(c)

SpecConverter == InitConverter /\ [][NextConverter]_vars

\* ------------------------------------------- convertToMOBI called on its own
\* Two calls of convertToMOBI, each with the EPUB and the project_id of the
\* publishBook call that makes it.
EpubBuffers == {EPUBFile(1, Absent), EPUBFile(2, Absent)}

MobiCalls ==
    {[method |-> "convertToMOBI", epubBuffer |-> e, projectId |-> p] :
        e \in EpubBuffers, p \in Calls}

InitMobi ==
    /\ InitCalls
    /\ params \in [Calls -> MobiCalls]
    /\ db_isbns = [i \in IsbnIds |-> TakenRow]

tempEpub(c) == <<params[c].projectId, "epub">>
tempMobi(c) == <<params[c].projectId, "mobi">>

\* What ebook-convert writes for an EPUB, and the MOBIFile built from it.
ebookConvert(epub) == [mobi_of |-> epub, length |-> epub.size]
MobiResult(buffer) == [file |-> buffer] @@ MOBIFile(buffer.length)

MobiGoto(c, where) ==
    /\ pc' = [pc EXCEPT ![c] = where]
    /\ UNCHANGED outcome

\* The catch block of convertToMOBI.
MobiCatch(c) ==
    /\ pc' = [pc EXCEPT ![c] = "rejected"]
    /\ outcome' = [outcome EXCEPT ![c] = Rejected("MOBI conversion failed")]

\* convertToMOBI up to `await fs.writeFile(tempEpub, epubBuffer)`, and the
\* write itself.
MobiWriteTemp(c) ==
    /\ pc[c] = "idle"
    /\ params[c].method = "convertToMOBI"
    /\ files' = [files EXCEPT ![tempEpub(c)] = params[c].epubBuffer]
    /\ MobiGoto(c, "mobi_exec")
    /\ UNCHANGED <<params, phaseIdx, pipelineVars, handlerVars, error, dbVars,
                   mobiBuffer>>

\* ebook-convert ran: it converts what tempEpub holds now into tempMobi, or
\* it fails (no input file, or the tool itself).
MobiExec(c) ==
    /\ pc[c] = "mobi_exec"
    /\ \/ /\ files[tempEpub(c)] # Absent
          /\ files' = [files EXCEPT ![tempMobi(c)] = ebookConvert(files[tempEpub(c)])]
          /\ MobiGoto(c, "mobi_read")
       \/ /\ MobiCatch(c)
          /\ UNCHANGED files
    /\ UNCHANGED <<params, phaseIdx, pipelineVars, handlerVars, error, dbVars,
                   mobiBuffer>>

\* fs.readFile(tempMobi) settled.
MobiRead(c) ==
    /\ pc[c] = "mobi_read"
    /\ IF files[tempMobi(c)] # Absent
       THEN /\ mobiBuffer' = [mobiBuffer EXCEPT ![c] = files[tempMobi(c)]]
            /\ MobiGoto(c, "mobi_unlink_epub")
       ELSE /\ MobiCatch(c)
            /\ UNCHANGED mobiBuffer
    /\ UNCHANGED <<params, phaseIdx, pipelineVars, handlerVars, error, dbVars, files>>

\* fs.unlink of a temporary file settled: it fails when the file is not there.
MobiUnlink(c, at, name, then) ==
    /\ pc[c] = at
    /\ IF files[name] # Absent
       THEN /\ files' = [files EXCEPT ![name] = Absent]
            /\ MobiGoto(c, then)
       ELSE /\ MobiCatch(c)
            /\ UNCHANGED files
    /\ UNCHANGED <<params, phaseIdx, pipelineVars, handlerVars, error, dbVars,
                   mobiBuffer>>

MobiUnlinkEpub(c) == MobiUnlink(c, "mobi_unlink_epub", tempEpub(c), "mobi_unlink_mobi")
MobiUnlinkMobi(c) == MobiUnlink(c, "mobi_unlink_mobi", tempMobi(c), "mobi_save")

\* The final file <projectId>_<Date.now()>.mobi is written and the MOBIFile
\* is returned.
MobiReturn(c) ==
    /\ pc[c] = "mobi_save"
    /\ pc' = [pc EXCEPT ![c] = "resolved"]
    /\ outcome' = [outcome EXCEPT ![c] = Resolved(MobiResult(mobiBuffer[c]))]
    /\ UNCHANGED <<params, phaseIdx, pipelineVars, handlerVars, error, dbVars,
                   converterVars>>

NextMobi ==
    \E c \in Calls :
        \/ MobiWriteTemp(c)
        \/ MobiExec(c)
        \/ MobiRead(c)
        \/ MobiUnlinkEpub(c)
        \/ MobiUnlinkMobi(c)
        \/ MobiReturn(c)

SpecMobi == InitMobi /\ [][NextMobi]_vars

\* ------------------------------------------------------------ observations
Last(seq) == seq[Len(seq)]

HandlerFailed(c) == \E i \in 1..Len(phases[c]) : phases[c][i].status = "failed"

ErrorEventsOf(c) == {i \in 1..Len(events[c]) : events[c][i].type = "error"}
ProgressEventsOf(c) == {i \in 1..Len(events[c]) : events[c][i].type = "progress"}

\* The phase whose handler awaits at position p.
OpPhase(p) ==
    CASE p \in {"assign_select", "assign_update", "assign_barcode"} -> "isbn_acquisition"
      [] p = "register_copyright" -> "copyright_registration"
      [] p = "apply_lccn" -> "lccn_application"
      [] p \in {"convert_epub", "convert_mobi", "convert_pdf"} -> "format_conversion"
      [] p = "generate_cover" -> "cover_generation"
      [] p = "optimize_metadata" -> "metadata_optimization"
      [] p \in {"validate_epub", "validate_pdf", "validate_cover"} -> "quality_validation"
      [] p = "submit_book" -> "platform_submission"
      [] OTHER -> NULL

Failed(rec, message) == [rec EXCEPT !.status = "failed", !.message = message]

C2_PhasesInOrder ==
    \A c \in Calls :
        LET n == Len(phases[c])
        IN  /\ n <= LastPhase
            /\ \A i \in 1..n :
                  phases[c][i].phase =
                     <<"isbn_acquisition", "copyright_registration",
                       "lccn_application", "format_conversion", "cover_generation",
                       "metadata_optimization", "quality_validation",
                       "platform_submission">>[i]
            /\ \A i \in 1..(n - 1) :
                  /\ phases[c][i].status = "completed"
                  /\ events[c][2 * i] =
                        ProgressEvent(c, PhaseOrder[i], getPhasePercentage(PhaseOrder[i]),
                                      "Completed")
            /\ \A i \in 1..n :
                  events[c][2 * i - 1] =
                        ProgressEvent(c, PhaseOrder[i], getPhasePercentage(PhaseOrder[i]),
                                      "Starting")
            /\ OpPhase(pc[c]) # NULL =>
                  /\ n >= 1
                  /\ Last(phases[c]).phase = OpPhase(pc[c])
                  /\ Last(phases[c]).status = "in_progress"

C2_Witness ==
    /\ Len(phases[1]) = LastPhase
    /\ pc[1] = "submit_book"
    /\ Len(params[1].formats) = 1

Completed(c) == {i \in 1..Len(phases[c]) : phases[c][i].status = "completed"}

\* C3: the progress events of a call carry non-decreasing values, the weight
\* of the phase they are about, in the order 10,20,30,50,65,75,85,100;
\* progress_percentage is the weight of the last completed phase, 0 when there
\* is none; after a phase failed no event carries more than its weight.
C3_ProgressMonotone ==
    \A c \in Calls :
        /\ \A i, j \in ProgressEventsOf(c) :
              i < j => events[c][i].progress <= events[c][j].progress
        /\ \A i \in ProgressEventsOf(c) :
              events[c][i].progress =
                 <<10, 20, 30, 50, 65, 75, 85, 100>>[(i + 1) \div 2]
        /\ progress_percentage[c] =
              IF Completed(c) = {} THEN 0
              ELSE <<10, 20, 30, 50, 65, 75, 85, 100>>[Cardinality(Completed(c))]
        /\ HandlerFailed(c) =>
              \A i \in ProgressEventsOf(c) :
                 events[c][i].progress <= getPhasePercentage(Last(phases[c]).phase)

C3_Witness ==
    /\ pc[1] = "save_project"
    /\ progress_percentage[1] = 100
    /\ Len(events[1]) = 16

\* C4: submitBook is invoked only after quality_validation completed with
\* every verdict passing; with a non-passing verdict the phase does not
\* complete, it is failed once its handler ended, and platform_submission is
\* never started.
C4_ValidationGatesSubmission ==
    \A c \in Calls :
        /\ (attempts[c] # <<>> \/ Len(phases[c]) = LastPhase) =>
              /\ phases[c][7].phase = "quality_validation"
              /\ phases[c][7].status = "completed"
              /\ ~hasCriticalErrors(validations[c])
        /\ hasCriticalErrors(validations[c]) =>
              /\ Len(phases[c]) = 7
              /\ attempts[c] = <<>>
              /\ phases[c][7].status # "completed"
              /\ pc[c] # "handler_returned"
              /\ pc[c] \in {"publish_catch", "rejected"} =>
                    phases[c][7].status = "failed"

C4_Witness ==
    /\ pc[1] = "rejected"
    /\ validations[1].cover # Absent
    /\ ~validations[1].cover.valid
    /\ validations[1].pdf # Absent
    /\ validations[1].pdf.valid

\* C5: (as the specification states it) under every interleaving of concurrent calls no
\* ISBN is handed to two assignISBN calls: the isbn_13 values returned to the
\* handlers are pairwise different, and the row of each still names the call
\* it was returned to.
C5_AtomicClaimOrFail ==
    \A c1, c2 \in Calls :
        \A i \in 1..Len(isbns[c1]), j \in 1..Len(isbns[c2]) :
            /\ (c1 # c2 \/ i # j) => isbns[c1][i].isbn_13 # isbns[c2][j].isbn_13
            /\ db_isbns[isbns[c1][i].isbn_13].project_id = c1

Artifacts(c) == {k \in {"epub", "mobi", "pdf"} : formatOutputs[c][k] # Absent}

\* The (artifact, channel) pairs a verdict exists for: validateEPUB takes no
\* channel and is counted for every channel, validatePDF is called with
\* 'ingram_spark', no call validates the MOBI.
EvaluatedPairs(c) ==
    {<<"epub", ch>> : ch \in IF validations[c].epub # Absent
                             THEN DistributionChannel ELSE {}}
    \cup {<<"pdf", ch>> : ch \in IF validations[c].pdf # Absent
                                 THEN {"ingram_spark"} ELSE {}}

Returned(c, methods) == pc[c] = "resolved" /\ params[c].method \in methods

Validators == {"validateEPUB", "validatePDF", "validateCover"}

Verdict(c) == outcome[c].value

WithCode(errors, code) == {i \in 1..Len(errors) : errors[i].code = code}

\* C11: a verdict returned by validateEPUB, validatePDF or validateCover has
\* valid = true exactly when no entry of errors has severity 'critical',
\* whatever else errors and warnings hold.
C11_ValidIffNoCritical ==
    \A c \in Calls :
        Returned(c, Validators) =>
            (Verdict(c).valid <=>
                \A i \in 1..Len(Verdict(c).errors) :
                    Verdict(c).errors[i].severity # "critical")

C11_Witness ==
    /\ Returned(1, {"validatePDF"})
    /\ Verdict(1).valid
    /\ \E i \in 1..Len(Verdict(1).errors) : Verdict(1).errors[i].severity = "error"
    /\ Len(Verdict(1).warnings) = 2

ExpectedScore(errors, warnings) ==
    LET raw == 100 - 20 * CountSev(errors, "critical") - 10 * CountSev(errors, "error")
                   - 5 * CountImp(warnings, "high") - 3 * CountImp(warnings, "medium")
                   - CountImp(warnings, "low")
    IN  IF raw < 0 THEN 0 ELSE raw

\* C12: calculateQualityScore returns 100 minus 20 per critical, 10 per
\* error, 5, 3 and 1 per high, medium and low warning, and 0 when that is
\* negative; the quality_score of every verdict is that value for its own
\* diagnostics, lies in 0..100, and valid follows the critical entries alone.
C12_QualityScore ==
    \A c \in Calls :
        /\ Returned(c, {"calculateQualityScore"}) =>
              /\ Verdict(c) = ExpectedScore(params[c].errors, params[c].warnings)
              /\ Verdict(c) \in 0..100
        /\ Returned(c, Validators) =>
              /\ Verdict(c).quality_score =
                    ExpectedScore(Verdict(c).errors, Verdict(c).warnings)
              /\ Verdict(c).quality_score \in 0..100
              /\ Verdict(c).valid = (CountSev(Verdict(c).errors, "critical") = 0)

C12_Witness ==
    /\ Returned(1, {"calculateQualityScore"})
    /\ Verdict(1) = 0
    /\ Len(params[1].errors) = 2 * MaxDiagnostics
    /\ Len(params[1].warnings) = 3 * MaxDiagnostics

\* The size rule of the call is violated, and the code its diagnostic has.
Oversize(c) ==
    \/ /\ params[c].method = "validateEPUB"
       /\ params[c].epub.size > EpubLimitMB
    \/ /\ params[c].method = "validatePDF"
       /\ params[c].pdf.size >
             (IF params[c].channel = "ingram_spark" THEN IngramPdfLimitMB
                                                    ELSE KdpPdfLimitMB)

SizeCode(c) == IF params[c].method = "validateEPUB" THEN "EPUB_TOO_LARGE" ELSE "PDF_TOO_LARGE"

\* C13: (as the specification states it) the verdict on an artifact larger
\* than the maximum size holds exactly one critical diagnostic, the one of
\* the size rule, and valid is false.
C13_ExactlyOneCritical ==
    \A c \in Calls :
        (Returned(c, {"validateEPUB", "validatePDF"}) /\ Oversize(c)) =>
            /\ CountSev(Verdict(c).errors, "critical") = 1
            /\ \A i \in 1..Len(Verdict(c).errors) :
                  Verdict(c).errors[i].severity = "critical" =>
                     Verdict(c).errors[i].code = SizeCode(c)
            /\ ~Verdict(c).valid

\* C13: (amended) the verdict on an artifact larger than the maximum size
\* holds exactly one diagnostic of the size rule, of severity critical, and
\* valid is false; it is the only critical diagnostic for validatePDF, while
\* validateEPUB adds one more for each of a missing cover, title or author.
C13_OneSizeDiagnostic ==
    \A c \in Calls :
        (Returned(c, {"validateEPUB", "validatePDF"}) /\ Oversize(c)) =>
            /\ Cardinality(WithCode(Verdict(c).errors, SizeCode(c))) = 1
            /\ \A i \in WithCode(Verdict(c).errors, SizeCode(c)) :
                  Verdict(c).errors[i].severity = "critical"
            /\ ~Verdict(c).valid
            /\ params[c].method = "validatePDF" =>
                  CountSev(Verdict(c).errors, "critical") = 1
            /\ params[c].method = "validateEPUB" =>
                  CountSev(Verdict(c).errors, "critical") =
                     1 + (IF params[c].epub.has_cover THEN 0 ELSE 1)
                       + (IF params[c].metadata.title THEN 0 ELSE 1)
                       + (IF params[c].metadata.author THEN 0 ELSE 1)

C13_Witness ==
    /\ Returned(1, {"validateEPUB"})
    /\ Oversize(1)
    /\ ~params[1].epub.has_cover
    /\ CountSev(Verdict(1).errors, "critical") = 2

\* The rules the specification calls critical, as violated by the arguments.
FormatViolated(c) ==
    /\ params[c].method = "validateCover"
    /\ params[c].cover.format \notin getCoverRequirements(params[c].channel).allowedFormats

MissingCover(c) == params[c].method = "validateEPUB" /\ ~params[c].epub.has_cover

\* C14: (as the specification states it) a violated size rule, a cover
\* format the channel does not allow and a missing cover each add exactly one
\* diagnostic, of severity critical, so the verdict is failing.
C14_ViolationsAreCritical ==
    \A c \in Calls :
        Returned(c, Validators) =>
            /\ Oversize(c) =>
                  /\ Cardinality(WithCode(Verdict(c).errors, SizeCode(c))) = 1
                  /\ ~Verdict(c).valid
            /\ MissingCover(c) =>
                  /\ Cardinality(WithCode(Verdict(c).errors, "MISSING_COVER")) = 1
                  /\ ~Verdict(c).valid
            /\ FormatViolated(c) =>
                  /\ Cardinality(WithCode(Verdict(c).errors, "INVALID_FORMAT")) = 1
                  /\ \A i \in WithCode(Verdict(c).errors, "INVALID_FORMAT") :
                        Verdict(c).errors[i].severity = "critical"
                  /\ ~Verdict(c).valid

\* C15: for a channel with no entry in the table, validatePDF and
\* validateCover return (neither throws) the verdict of the amazon_kdp entry:
\* 650 MB and 24 pages for a PDF, 2560x1600 and jpg or tiff for a cover, and
\* none of the rules that are particular to ingram_spark.
C15_UnknownChannelDefault ==
    \A c \in Calls :
        /\ (params[c].method = "validatePDF"
            /\ params[c].channel \notin {"ingram_spark", "amazon_kdp"}) =>
              /\ pc[c] # "rejected"
              /\ pc[c] = "resolved" =>
                    /\ Verdict(c).errors =
                          When(params[c].pdf.size > 650, Err("PDF_TOO_LARGE", "critical"))
                          \o When(params[c].pdf.page_count < 24, Err("TOO_FEW_PAGES", "error"))
                    /\ Verdict(c).warnings = <<>>
        /\ (params[c].method = "validateCover"
            /\ params[c].channel \notin {"ingram_spark", "amazon_kdp", "draft2digital"}) =>
              /\ pc[c] # "rejected"
              /\ pc[c] = "resolved" =>
                    /\ Verdict(c).errors =
                          When(\/ params[c].cover.dimensions.width < 2560
                               \/ params[c].cover.dimensions.height < 1600,
                               Err("COVER_TOO_SMALL", "critical"))
                          \o When(params[c].cover.format \notin {"jpg", "tiff"},
                                  Err("INVALID_FORMAT", "error"))
                    /\ \A i \in 1..Len(Verdict(c).warnings) :
                          Verdict(c).warnings[i].code = "UNUSUAL_ASPECT_RATIO"

C15_Witness ==
    /\ Returned(1, {"validateCover"})
    /\ params[1].channel = "kobo"
    /\ params[1].cover.dimensions.width = 2000
    /\ params[1].cover.format = "png"
    /\ Len(Verdict(1).errors) = 2

\* ------------------------------------------------- claims on FormatConverter
ArchiveNames(c) ==
    {outcome[c].value.file[i].name : i \in 1..Len(outcome[c].value.file)}

\* The archive path an href of content.opf refers to.
Resolve(href) == Name("OEBPS", href[1], href[2])

\* C16: (as the specification states it) the manifest of a built EPUB has
\* one item per chapter plus nav, toc.ncx and stylesheet, plus cover image
\* and cover page exactly when a cover was supplied; every manifest item
\* refers to a file of the archive and every spine itemref names a manifest
\* item whose file is in the archive.
C16_ManifestMatchesArchive ==
    \A c \in Calls :
        Built(c) =>
            LET opf == Document(c, "content.opf")
            IN  /\ Len(opf.manifest) =
                      Len(params[c].chapters) + 3
                      + (IF params[c].cover # Absent THEN 2 ELSE 0)
                /\ \A i \in 1..Len(opf.manifest) :
                      Resolve(opf.manifest[i].href) \in ArchiveNames(c)
                /\ \A j \in 1..Len(opf.spine) :
                      \E i \in 1..Len(opf.manifest) :
                         /\ opf.manifest[i].id = opf.spine[j]
                         /\ Resolve(opf.manifest[i].href) \in ArchiveNames(c)

\* The input chapter whose chapter_number is n, when there is exactly one.
ChapterNumbered(chapters, n) ==
    {i \in 1..Len(chapters) : chapters[i].chapter_number = n}

ChapterFile(c, n) ==
    LET file == outcome[c].value.file
    IN  file[CHOOSE i \in 1..Len(file) : file[i].name = Name("OEBPS", "chapter.xhtml", n)]

\* C17: (as the specification states it) for a non-empty chapter list the
\* spine, nav.xhtml and toc.ncx list the chapters by chapter_number, each
\* once: the N-th chapter entry is the one chapter whose chapter_number is N,
\* and chapterN.xhtml holds that chapter's content.
C17_SpineFollowsChapterNumber ==
    \A c \in Calls :
        (Built(c) /\ params[c].chapters # <<>>) =>
            LET chapters == params[c].chapters
                opf == Document(c, "content.opf")
                ncx == Document(c, "toc.ncx")
                nav == Document(c, "nav.xhtml")
            IN  \A n \in 1..Len(chapters) :
                    /\ Cardinality(ChapterNumbered(chapters, n)) = 1
                    /\ \A i \in ChapterNumbered(chapters, n) :
                          /\ opf.spine[n + 1] = Ref("chapter", n)
                          /\ ChapterFile(c, n).content.content = chapters[i].content
                          /\ ChapterFile(c, n).content.title = chapters[i].title
                          /\ nav[n].title = chapters[i].title
                          /\ ncx.navPoints[n].title = chapters[i].title

C19_OneIdentifierPerBuild ==
    \A c \in Calls :
        Built(c) =>
            /\ Document(c, "content.opf").identifier = Document(c, "toc.ncx").uid
            /\ \A d \in Calls :
                  (d # c /\ Built(d)) =>
                      Document(c, "content.opf").identifier
                         # Document(d, "content.opf").identifier

\* An empty chapter list, or chapter_number values that are not 1..n once each.
Malformed(chapters) ==
    \/ chapters = <<>>
    \/ \E n \in 1..Len(chapters) : Cardinality(ChapterNumbered(chapters, n)) # 1

\* C20: (as the specification states it) convertToEPUB and convertToPDF
\* return no artifact for an empty chapter list or for chapter_number values
\* with a gap or a duplicate: the call fails.
C20_MalformedChaptersRejected ==
    \A c \in Calls :
        (/\ params[c].method \in {"convertToEPUB", "convertToPDF"}
         /\ Malformed(params[c].chapters)) =>
            pc[c] # "resolved"

\* ------------------------------------------------------- claims on the PDF
PdfBuilt(c) == pc[c] = "resolved" /\ params[c].method = "convertToPDF"

\* C21: (as the specification states it) the pages of a built PDF are the
\* title page, the copyright page, a table of contents exactly when there is
\* more than one chapter, then the chapters in ordinal order, each starting
\* on a new page: the N-th chapter page is the chapter whose chapter_number
\* is N.  page_count is the number of pages of the rendered document and at
\* least 1, and bleed is the include_bleed input.
C21_PdfPagesInOrdinalOrder ==
    \A c \in Calls :
        (PdfBuilt(c) /\ ~Malformed(params[c].chapters)) =>
            LET chapters == params[c].chapters
                pdf == outcome[c].value
                front == IF Len(chapters) > 1
                         THEN <<"title", "copyright", "contents">>
                         ELSE <<"title", "copyright">>
            IN  /\ Len(pdf.file) = Len(front) + Len(chapters)
                /\ \A i \in 1..Len(front) : pdf.file[i].page = front[i]
                /\ \A n \in 1..Len(chapters) :
                      \A i \in ChapterNumbered(chapters, n) :
                          /\ pdf.file[Len(front) + n].page = "chapter"
                          /\ pdf.file[Len(front) + n].title = chapters[i].title
                          /\ pdf.file[Len(front) + n].content = chapters[i].content
                /\ pdf.page_count >= 1
                /\ pdf.page_count = Len(pdf.file)
                /\ pdf.bleed = params[c].include_bleed

\* ---------------------------------------------------- claims on shared files
\* C22: (as the specification states it) a call of convertToMOBI made while
\* another call is in progress, for the same project_id or another one,
\* returns what it would return on its own, the MOBI of the EPUB it was given,
\* and never reads a file that holds the other call's data.
C22_ConcurrentCallsDoNotInterfere ==
    \A c \in Calls :
        /\ pc[c] = "resolved" =>
              outcome[c].value = MobiResult(ebookConvert(params[c].epubBuffer))
        /\ pc[c] = "mobi_read" =>
              files[tempMobi(c)] \in {Absent, ebookConvert(params[c].epubBuffer)}

\* ------------------------------------------------------ claims on the pipeline
\* C23: the total_cost of the project a call returns and saves is the number
\* of requested formats times isbn_single, plus copyright_registration, lccn
\* and cover_generation.  It exists only once all eight phases have
\* completed: no project is built or saved for a call before that, and the
\* phases that ran are the eight of the fixed order, whatever the cost.
C23_TotalCost ==
    \A c \in Calls :
        /\ pc[c] = "resolved" =>
              /\ outcome[c].project.total_cost =
                    Len(params[c].formats) * isbn_single
                    + copyright_registration + lccn + cover_generation
              /\ outcome[c].project \in db_projects
              /\ Len(phases[c]) = LastPhase
              /\ \A i \in 1..LastPhase :
                    /\ phases[c][i].phase = PhaseOrder[i]
                    /\ phases[c][i].status = "completed"
        /\ pc[c] # "resolved" =>
              /\ outcome[c].state # "resolved"
              /\ \A row \in db_projects : row.prose_project_id # params[c].project_id

C23_Witness ==
    /\ pc[1] = "resolved"
    /\ Len(params[1].formats) = 2
    /\ outcome[1].project.total_cost = 31540

\* What a failing collaborator (database, registrars, conversion tools, cover
\* and metadata services, platforms) makes a handler throw.
CollaboratorFailures ==
    {"No available ISBNs", "Copyright registration failed", "LCCN application failed",
     "EPUB conversion failed", "MOBI conversion failed", "PDF conversion failed",
     "Cover generation failed", "Metadata optimization failed",
     "KDP submission failed", "IngramSpark submission failed", "insert failed"}

\* C24: (as the specification states it) a publishBook call with at least one
\* format and one channel, all of whose collaborators succeed, goes on to
\* complete the eight phases and resolve with status 'published': nothing but
\* the failure of a collaborator ever stops it.  The cover is the value
\* generateCover returns.
C24_OnlyCollaboratorsStopTheCall ==
    \A c \in Calls :
        (/\ Len(params[c].formats) > 0
         /\ Len(params[c].distribution_channels) > 0
         /\ coverDesign[c] \in {Absent, CoverGenerationResult}) =>
            error[c] \in {NULL} \cup CollaboratorFailures

PhasesWellFormed(c) ==
    /\ Len(phases[c]) <= LastPhase
    /\ \A i \in 1..Len(phases[c]) :
          /\ phases[c][i].phase = PhaseOrder[i]
          /\ phases[c][i].status \in {"in_progress", "completed", "failed"}
          /\ i < Len(phases[c]) => phases[c][i].status = "completed"

\* A record that is completed or failed keeps its status.
PhasesSettledForGood(c) ==
    \A i \in 1..Len(phases[c]) :
        phases[c][i].status \in {"completed", "failed"} =>
            /\ Len(phases'[c]) >= i
            /\ phases'[c][i].status = phases[c][i].status

\* C27: pipeline.phases is always a prefix of the fixed phase order with one
\* record for each phase started; at most one record, the last, is
\* 'in_progress' or 'failed' and all the records before it are 'completed';
\* a record that became 'completed' or 'failed' never changes status again.
C27_PhaseRecords ==
    /\ [](\A c \in Calls : PhasesWellFormed(c))
    /\ [][\A c \in Calls : PhasesSettledForGood(c)]_vars

C27_Witness ==
    /\ pc[1] = "rejected"
    /\ Len(phases[1]) = 4
    /\ phases[1][4].status = "failed"
    /\ \A i \in 1..3 : phases[1][i].status = "completed"

\* ------------------------------------------------------- claims on the ISBNs
\* The ISBNs assignISBN returned to a call.
IsbnsOf(c) == {isbns[c][k].isbn_13 : k \in 1..Len(isbns[c])}

\* C28: an ISBN assigned to a call in isbn_acquisition stays 'assigned' to
\* the call's project whatever happens afterwards, a later format failing in
\* isbn_acquisition or a later phase failing included: no step makes an
\* assigned row available again or changes it.  A later publishBook call for
\* the same project is given further ISBNs, none of the earlier ones.
C28_AssignedIsbnsStay ==
    /\ [](\A c \in Calls : \A i \in IsbnsOf(c) :
             /\ db_isbns[i].status = "assigned"
             /\ db_isbns[i].project_id = params[c].project_id)
    /\ [](IsbnsOf(1) \cap IsbnsOf(2) = {})
    /\ [][\A i \in IsbnIds :
             db_isbns[i].status = "assigned" =>
                 /\ db_isbns'[i].status = "assigned"
                 /\ db_isbns'[i].format_type = db_isbns[i].format_type
                 /\ db_isbns'[i].project_id = db_isbns[i].project_id]_vars

C28_Witness ==
    /\ params[1].project_id = params[2].project_id
    /\ pc[1] = "rejected"
    /\ Len(isbns[1]) = 1
    /\ pc[2] = "rejected"
    /\ Len(isbns[2]) = 1
    /\ error[2] = "No available ISBNs"
    /\ \A i \in IsbnsOf(1) \cup IsbnsOf(2) : db_isbns[i].status = "assigned"

RECURSIVE ExpectedEvents(_, _)
ExpectedEvents(c, n) ==
    IF n = 0 THEN <<>>
    ELSE LET rec == phases[c][n]
             pct == getPhasePercentage(rec.phase)
         IN  ExpectedEvents(c, n - 1)
             \o <<ProgressEvent(c, rec.phase, pct, "Starting")>>
             \o (CASE rec.status = "completed" ->
                        <<ProgressEvent(c, rec.phase, pct, "Completed")>>
                   [] rec.status = "failed" -> <<ErrorEvent(c, rec.phase, rec.message)>>
                   [] OTHER -> <<>>)

\* The percentage of the last completed phase of the call, 0 before.
ExpectedProgress(c) ==
    LET done == {i \in 1..Len(phases[c]) : phases[c][i].status = "completed"}
    IN  IF done = {} THEN 0
        ELSE getPhasePercentage(phases[c][CHOOSE i \in done : \A j \in done : j <= i].phase)

\* C30: two concurrent publishBook calls with different project_ids on one
\* orchestrator each keep their own phase list and progress, and the events
\* carrying a project_id are exactly those a single call produces, in the
\* same order, whatever the interleaving: for each phase record a 'Starting'
\* event, then its 'Completed' or its error event, and nothing else.
C30_CallsKeepTheirOwnPipeline ==
    /\ params[1].project_id # params[2].project_id
    /\ \A c \in Calls :
          /\ PhasesWellFormed(c)
          /\ progress_percentage[c] = ExpectedProgress(c)
          /\ events[params[c].project_id] = ExpectedEvents(c, Len(phases[c]))

C30_Witness ==
    /\ ~Settled(1) /\ ~Settled(2)
    /\ Len(phases[1]) >= 2 /\ Len(phases[2]) >= 2
    /\ phases[1][Len(phases[1])].phase # phases[2][Len(phases[2])].phase
    /\ Len(events[1]) >= 3 /\ Len(events[2]) >= 3

====
